---- MODULE Spec2Model ----
(***************************************************************************)
(* Model of the M2M OAuth credential rotation notebook                     *)
(* (Update-M2M-OAuth-Credentials.py) and the two services it drives,       *)
(* DatabricksService and PowerbiService.  One behaviour is a sequence of   *)
(* "Run all" executions of the notebook against the same Databricks        *)
(* workspace: a run executes its cells in order and stops at the first     *)
(* exception.  The service principal store outlives the runs, the notebook *)
(* globals do not.                                                         *)
(***************************************************************************)
EXTENDS Integers, Sequences, FiniteSets, TLC

(* ------------------------------ bounds --------------------------------- *)

\* service principals that may already carry the display name
MaxPrincipals == 2
\* characters of a minted secret
MaxSecretLen == 2
\* secrets a listed principal can still take when the first run starts
MaxHeadroom == 1
\* entries of a listing returned by the Power BI REST API
MaxListing == 2

(* ------------------------- program constants --------------------------- *)

\* DatabricksService.CreateClient: self.max_secrets = 5
max_secrets == 5

(* ------------------------------ strings -------------------------------- *)
\* Text that is formatted or parsed is a sequence of one-character strings.

QUOTE == "\""
BACKSLASH == "\\"

\* characters a secret may be made of
SecretAlphabet == {"a", QUOTE, BACKSLASH}

RECURSIVE StringsUpTo(_, _)
StringsUpTo(alphabet, n) ==
    IF n = 0 THEN {<<>>}
    ELSE LET shorter == StringsUpTo(alphabet, n - 1)
         IN  shorter \cup {Append(s, c) : s \in shorter, c \in alphabet}

SecretValues == StringsUpTo(SecretAlphabet, MaxSecretLen) \ {<<>>}

\* sequences over S of length at most n
RECURSIVE SeqsUpTo(_, _)
SeqsUpTo(S, n) ==
    IF n = 0 THEN {<<>>}
    ELSE LET shorter == SeqsUpTo(S, n - 1)
         IN  shorter \cup {Append(s, x) : s \in shorter, x \in S}

(* -------------------------- notebook widgets --------------------------- *)

\* dbutils.widgets.dropdown("GatewayType", ...) choices, and a value outside
\* the choices as a job parameter can carry it
GatewayTypes == {"NoGateway", "Onpremises", "VNET", "Other"}
\* dbutils.widgets.dropdown("RefreshDataset", ...) choices
RefreshFlags == {"true", "false"}
\* dbutils.widgets.text("Workspace", "") and dbutils.widgets.text("Dataset", "")
Workspace == "Sales"
Dataset == "Revenue"

VARIABLES
    \* PrincipalStore (Databricks workspace), shared by all runs
    service_principals,   \* ids listed for the display name, in listing order
    secrets,              \* id -> number of live secrets
    \* position of the run
    pc,                   \* last stage completed, or "Failed"
    err,                  \* the exception that ended the run
    calls,                \* service methods invoked in this run, in order
    response,             \* last response of a collaborator in this run
    \* notebook globals
    GatewayType, RefreshDataset,
    ServicePrincipaId, ServicePrincipalApplicationId, ServicePrincipalSecret,
    secrets_count,        \* len(list(...)) seen by CheckServicePrincipalSecret
    WorkspaceId, DatasetId, GatewayId, DataSourceId,
    public_key, EncryptionAlgorithm, Credentials,
    \* a second session running the notebook against the same workspace
    other                 \* its position, and its ServicePrincipaId and secrets_count

store == <<service_principals, secrets>>
widgets == <<GatewayType, RefreshDataset>>
dbx_globals == <<ServicePrincipaId, ServicePrincipalApplicationId,
                 ServicePrincipalSecret, secrets_count>>
pbi_ids == <<WorkspaceId, DatasetId, GatewayId, DataSourceId>>
payload == <<public_key, EncryptionAlgorithm, Credentials>>
vars == <<store, pc, err, calls, response, widgets, dbx_globals, pbi_ids, payload,
         other>>

(* ------------------------------ values --------------------------------- *)

\* application_id of the service principal with the given id
ApplicationIdOf(id) == [k \in 1..id |-> "a"]

NoError == [exc |-> "", by |-> "", msg |-> "", stage |-> "", status |-> 0, text |-> ""]
NoResponse == [status |-> 0, text |-> "", value |-> <<>>]
NoCredentials == [key |-> 0, text |-> <<>>]
\* the globals of a session whose cells have not run yet
NotStarted == [pc |-> "Init", ServicePrincipaId |-> 0, secrets_count |-> 0]

\* bodies of a rejected HTTP request
ErrorTexts == {"Forbidden", "Unavailable"}
ErrorStatuses == {403, 500}

(* --------------------------- raising errors ---------------------------- *)

\* An exception leaves the cell: the run stops, the globals keep their values.
Raise(exc, by, msg, stage, status, text) ==
    /\ pc' = "Failed"
    /\ err' = [exc |-> exc, by |-> by, msg |-> msg, stage |-> stage,
               status |-> status, text |-> text]

(* ---------------------------- initial state ---------------------------- *)

\* The globals of a notebook whose cells have not run yet.
FreshRun ==
    /\ pc' = "Init"
    /\ err' = NoError
    /\ calls' = <<>>
    /\ response' = NoResponse
    /\ GatewayType' \in GatewayTypes
    /\ RefreshDataset' \in RefreshFlags
    /\ ServicePrincipaId' = 0
    /\ ServicePrincipalApplicationId' = <<>>
    /\ ServicePrincipalSecret' = <<>>
    /\ secrets_count' = 0
    /\ WorkspaceId' = 0
    /\ DatasetId' = 0
    /\ GatewayId' = 0
    /\ DataSourceId' = 0
    /\ public_key' = 0
    /\ EncryptionAlgorithm' = ""
    /\ Credentials' = NoCredentials

\* The principals carrying the display name are listed in id order; a
\* principal that does not exist has no secret, and no principal holds more
\* than max_secrets of them.
Init ==
    /\ \E n \in 0..MaxPrincipals, c \in 0..max_secrets :
         /\ c >= max_secrets - MaxHeadroom
         /\ service_principals = [i \in 1..n |-> i]
         /\ secrets = [i \in 1..(MaxPrincipals + 1) |-> IF i <= n THEN c ELSE 0]
    /\ pc = "Init"
    /\ err = NoError
    /\ calls = <<>>
    /\ response = NoResponse
    /\ GatewayType \in GatewayTypes
    /\ RefreshDataset \in RefreshFlags
    /\ ServicePrincipaId = 0
    /\ ServicePrincipalApplicationId = <<>>
    /\ ServicePrincipalSecret = <<>>
    /\ secrets_count = 0
    /\ WorkspaceId = 0
    /\ DatasetId = 0
    /\ GatewayId = 0
    /\ DataSourceId = 0
    /\ public_key = 0
    /\ EncryptionAlgorithm = ""
    /\ Credentials = NoCredentials
    /\ other = NotStarted

(* -------------------------- DatabricksService -------------------------- *)

\* the lookup stopping at its first match
ListedServicePrincipal_First(listing) ==
    IF listing = <<>> THEN 0 ELSE listing[1]

\* CheckServicePrincipal, lines 15-20: the loop over the listing keeps
\* overwriting service_principal_id; None (0) when the listing is empty.
ListedServicePrincipal(listing) ==
    IF listing = <<>> THEN 0 ELSE listing[Len(listing)]

\* the cap compared with > instead of >=
SecretCapReached_OffByOne(count) == count > max_secrets

\* CheckServicePrincipalSecret, line 39
SecretCapReached(count) == count >= max_secrets

\* cell 4: dbx_svc.CheckServicePrincipal(ServicePrincipal)
CheckServicePrincipal ==
    /\ pc = "Init"
    /\ \E list_ok, create_ok \in BOOLEAN :
         LET found == ListedServicePrincipal(service_principals)
             created == Len(service_principals) + 1
         IN
         IF ~list_ok THEN
            /\ Raise("DatabricksError", "service_principals.list", "",
                     "PrincipalEnsured", 0, "")
            /\ calls' = Append(calls, "CheckServicePrincipal")
            /\ UNCHANGED <<store, response, widgets, dbx_globals, pbi_ids, payload>>
         ELSE IF found # 0 THEN
            /\ pc' = "PrincipalEnsured"
            /\ ServicePrincipaId' = found
            /\ ServicePrincipalApplicationId' = ApplicationIdOf(found)
            /\ calls' = Append(calls, "CheckServicePrincipal")
            /\ UNCHANGED <<store, err, response, widgets, ServicePrincipalSecret,
                           secrets_count, pbi_ids, payload>>
         ELSE IF ~create_ok THEN
            /\ Raise("DatabricksError", "service_principals.create", "",
                     "PrincipalEnsured", 0, "")
            /\ calls' = calls \o <<"CheckServicePrincipal", "service_principals.create">>
            /\ UNCHANGED <<store, response, widgets, dbx_globals, pbi_ids, payload>>
         ELSE
            /\ pc' = "PrincipalEnsured"
            /\ service_principals' = Append(service_principals, created)
            /\ ServicePrincipaId' = created
            /\ ServicePrincipalApplicationId' = ApplicationIdOf(created)
            /\ calls' = calls \o <<"CheckServicePrincipal", "service_principals.create">>
            /\ UNCHANGED <<secrets, err, response, widgets, ServicePrincipalSecret,
                           secrets_count, pbi_ids, payload>>
    /\ UNCHANGED other

\* cell 5: dbx_svc.CheckServicePrincipalSecret(ServicePrincipaId)
CheckServicePrincipalSecret ==
    /\ pc = "PrincipalEnsured"
    /\ calls' = Append(calls, "CheckServicePrincipalSecret")
    /\ \E list_ok \in BOOLEAN :
         IF ~list_ok THEN
            /\ Raise("DatabricksError", "service_principal_secrets_proxy.list", "",
                     "CapacityChecked", 0, "")
            /\ UNCHANGED secrets_count
         ELSE
            /\ secrets_count' = secrets[ServicePrincipaId]
            /\ IF SecretCapReached(secrets[ServicePrincipaId])
               THEN Raise("ValueError", "CheckServicePrincipalSecret",
                          "has already max_secrets secrets", "CapacityChecked", 0, "")
               ELSE pc' = "CapacityChecked" /\ UNCHANGED err
    /\ UNCHANGED <<store, response, widgets, ServicePrincipaId,
                   ServicePrincipalApplicationId, ServicePrincipalSecret,
                   pbi_ids, payload>>
    /\ UNCHANGED other

\* cell 6: dbx_svc.GenerateServicePrincipalSecret(ServicePrincipaId, Lifetime)
GenerateServicePrincipalSecret ==
    /\ pc = "CapacityChecked"
    /\ calls' = Append(calls, "GenerateServicePrincipalSecret")
    /\ \E create_ok \in BOOLEAN, secret \in SecretValues :
         IF ~create_ok THEN
            /\ Raise("DatabricksError", "service_principal_secrets_proxy.create", "",
                     "SecretMinted", 0, "")
            /\ UNCHANGED <<secrets, ServicePrincipalSecret>>
         ELSE
            /\ pc' = "SecretMinted"
            /\ secrets' = [secrets EXCEPT ![ServicePrincipaId] = @ + 1]
            /\ ServicePrincipalSecret' = secret
            /\ UNCHANGED err
    /\ UNCHANGED <<service_principals, response, widgets, ServicePrincipaId,
                   ServicePrincipalApplicationId, secrets_count, pbi_ids, payload>>
    /\ UNCHANGED other

\* cell 7 with a compensation: a failed grant deletes the secret just minted
GrantPermissionsOnWarehouse_Revoking ==
    /\ pc = "SecretMinted"
    /\ calls' = Append(calls, "GrantPermissionsOnWarehouse")
    /\ \E set_ok \in BOOLEAN :
         IF ~set_ok
         THEN /\ Raise("DatabricksError", "warehouses.set_permissions", "",
                       "PermissionGranted", 0, "")
              /\ secrets' = [secrets EXCEPT ![ServicePrincipaId] = @ - 1]
         ELSE pc' = "PermissionGranted" /\ UNCHANGED <<err, secrets>>
    /\ UNCHANGED <<service_principals, response, widgets, dbx_globals, pbi_ids, payload>>
    /\ UNCHANGED other

\* cell 7: dbx_svc.GrantPermissionsOnWarehouse(ServicePrincipalApplicationId, WarehouseId)
GrantPermissionsOnWarehouse ==
    /\ pc = "SecretMinted"
    /\ calls' = Append(calls, "GrantPermissionsOnWarehouse")
    /\ \E set_ok \in BOOLEAN :
         IF ~set_ok
         THEN Raise("DatabricksError", "warehouses.set_permissions", "",
                    "PermissionGranted", 0, "")
         ELSE pc' = "PermissionGranted" /\ UNCHANGED err
    /\ UNCHANGED <<store, response, widgets, dbx_globals, pbi_ids, payload>>
    /\ UNCHANGED other

(* ---------------------------- PowerbiService --------------------------- *)

\* what a service method hands back to the cell: a value or an exception
Return(result) == [ok |-> TRUE, exc |-> "", msg |-> "", result |-> result]
Throw(exc, msg) == [ok |-> FALSE, exc |-> exc, msg |-> msg, result |-> 0]

\* responses of the Power BI REST API: a rejected request carries an error
\* body without the "value" or "publicKey" member
Rejections ==
    [status : ErrorStatuses, text : ErrorTexts, value : {<<>>}]
Accepted(status, value) == [status |-> status, text |-> "", value |-> value]

\* The entries of a listing have ids of their own: the i-th workspace has id
\* 20 + i, the i-th dataset 30 + i, the i-th datasource gateway id 40 + i and
\* datasource id 50 + i.
Numbered(entries, base) ==
    [i \in 1..Len(entries) |-> [name |-> entries[i], id |-> base + i]]

WorkspaceResponses ==
    Rejections \cup
    {Accepted(200, Numbered(v, 20)) : v \in SeqsUpTo({Workspace}, MaxListing)}
DatasetResponses ==
    Rejections \cup
    {Accepted(200, Numbered(v, 30)) :
        v \in SeqsUpTo({Dataset, "Other"}, MaxListing)}
DatasourceResponses ==
    Rejections \cup
    {Accepted(200, [i \in 1..Len(v) |->
                      [kind |-> v[i], gatewayId |-> 40 + i, datasourceId |-> 50 + i]]) :
        v \in SeqsUpTo({"Databricks", "Sql"}, MaxListing)}
\* "publicKey" of a gateway: key material (1), or null (no entry)
GatewayResponses ==
    Rejections \cup {Accepted(200, <<>>), Accepted(200, <<1>>)}
TakeOverResponses == Rejections \cup {Accepted(200, <<>>)}
UpdateResponses == Rejections \cup {Accepted(200, <<>>)}
RefreshResponses == Rejections \cup {Accepted(202, <<>>), Accepted(200, <<>>)}

\* the first of a set of indices: a loop that stops at its first match
Last_First(S) == CHOOSE i \in S : \A j \in S : i <= j

\* the last of a set of indices: the loops keep overwriting on a match
Last(S) == CHOOSE i \in S : \A j \in S : j <= i

\* GetWorkspaceId without its test for an empty listing: value[0] raises
WorkspaceIdOf_NoEmptyTest(r) ==
    IF r.status # 200
    THEN Throw("ValueError", "Error retrieving the workspace id")
    ELSE IF Len(r.value) = 0
    THEN Throw("IndexError", "list index out of range")
    ELSE Return(r.value[1].id)

\* GetWorkspaceId, lines 51-57
WorkspaceIdOf(r) ==
    IF r.status # 200
    THEN Throw("ValueError", "Error retrieving the workspace id")
    ELSE IF Len(r.value) = 0
    THEN Throw("ValueError", "Workspace does not exist or no access")
    ELSE Return(r.value[1].id)

\* the lookup answering None when no dataset carries the name
DatasetIdOf_NoneWhenMissing(r, dataset_name) ==
    LET hits == {i \in 1..Len(r.value) : r.value[i].name = dataset_name}
    IN  IF r.status # 200 THEN Throw("KeyError", "value")
        ELSE IF hits = {} THEN Return(0)
        ELSE Return(r.value[Last(hits)].id)

\* GetDatasetId, lines 42-46
DatasetIdOf(r, dataset_name) ==
    LET hits == {i \in 1..Len(r.value) : r.value[i].name = dataset_name}
    IN  IF r.status # 200 THEN Throw("KeyError", "value")
        ELSE IF hits = {} THEN Throw("UnboundLocalError", "DatasetId")
        ELSE Return(r.value[Last(hits)].id)

\* GetDatasetDatasource, lines 62-67
DatasetDatasourceOf(r) ==
    LET hits == {i \in 1..Len(r.value) : r.value[i].kind = "Databricks"}
    IN  IF r.status # 200 THEN Throw("KeyError", "value")
        ELSE IF hits = {} THEN Throw("UnboundLocalError", "GatewayId")
        ELSE Return(<<r.value[Last(hits)].gatewayId,
                      r.value[Last(hits)].datasourceId>>)

\* GetGatewayPublicKey, lines 36-37; null is 0
PublicKeyOf(r) ==
    IF r.status # 200 THEN Throw("KeyError", "publicKey")
    ELSE IF r.value = <<>> THEN Return(0)
    ELSE Return(r.value[1])

\* TakOverDataset, lines 72-75
TakOverDatasetOf(r) ==
    IF r.status = 200 THEN Return(0)
    ELSE Throw("ValueError", "does not have permissions to take over the dataset")

\* RefreshDataset taking every status below 400 for an acceptance
RefreshDatasetOf_ErrorStatusesOnly(r) ==
    IF r.status >= 400 THEN Throw("ValueError", "Error refreshing the dataset")
    ELSE Return(0)

\* RefreshDataset, lines 81-84
RefreshDatasetOf(r) ==
    IF r.status # 202 THEN Throw("ValueError", "Error refreshing the dataset")
    ELSE Return(0)

\* UpdateDatasetDatasource rejecting server errors only
UpdateDatasetDatasourceOf_ServerErrorsOnly(r) ==
    IF r.status >= 500 THEN Throw("ValueError", "Error updating the datasource")
    ELSE Return(0)

\* UpdateDatasetDatasource, lines 102-105
UpdateDatasetDatasourceOf(r) ==
    IF r.status # 200 THEN Throw("ValueError", "Error updating the datasource")
    ELSE Return(0)

\* the two messages that quote response.status_code and response.text
QuotesResponse(out) ==
    out.msg \in {"Error retrieving the workspace id", "Error refreshing the dataset",
                 "Error updating the datasource"}

\* The exception a service method throws leaves the cell.
RaiseThrown(out, by, stage, r) ==
    Raise(out.exc, by, out.msg, stage,
          IF QuotesResponse(out) THEN r.status ELSE 0,
          IF QuotesResponse(out) THEN r.text ELSE "")

\* GetRequestHeader, lines 27-31, with a token endpoint that returned no
\* access_token: "Bearer " + None
RaiseNoToken(stage) ==
    Raise("TypeError", "GetRequestHeader", "", stage, 0, "")

\* the take-over skipped for the on-premises gateway only
TakesOver_UnlessOnpremises(gateway_type) == gateway_type # "Onpremises"
\* the encryption chosen for every gateway
Encrypts_UnlessNoGateway(gateway_type) == gateway_type # "NoGateway"
\* the widget's text tested for truth, as Python does for a non-empty string
RefreshRequested_Truthy(flag) == flag # ""

\* notebook line 158
TakesOver(gateway_type) == gateway_type = "NoGateway"
\* notebook line 179
Encrypts(gateway_type) == gateway_type = "Onpremises"
\* notebook line 210
RefreshRequested(flag) == flag = "true"

\* cells 8-10: dbutils.secrets.get, CreateCredential, GetWorkspaceId(Workspace)
GetWorkspaceId ==
    /\ pc = "PermissionGranted"
    /\ \E secrets_ok, token_ok \in BOOLEAN, r \in WorkspaceResponses :
         IF ~secrets_ok THEN
            /\ Raise("SecretsError", "dbutils.secrets.get", "", "WorkspaceResolved", 0, "")
            /\ UNCHANGED <<calls, response, WorkspaceId>>
         ELSE IF ~token_ok THEN
            /\ RaiseNoToken("WorkspaceResolved")
            /\ calls' = calls \o <<"GetWorkspaceId", "GetAccessToken">>
            /\ UNCHANGED <<response, WorkspaceId>>
         ELSE
            /\ calls' = calls \o <<"GetWorkspaceId", "GetAccessToken">>
            /\ response' = r
            /\ IF WorkspaceIdOf(r).ok
               THEN /\ pc' = "WorkspaceResolved"
                    /\ WorkspaceId' = WorkspaceIdOf(r).result
                    /\ UNCHANGED err
               ELSE /\ RaiseThrown(WorkspaceIdOf(r), "GetWorkspaceId", "WorkspaceResolved", r)
                    /\ UNCHANGED WorkspaceId
    /\ UNCHANGED <<store, widgets, dbx_globals, DatasetId, GatewayId, DataSourceId, payload>>
    /\ UNCHANGED other

\* cell 11: GetDatasetId(WorkspaceId, Dataset)
GetDatasetId ==
    /\ pc = "WorkspaceResolved"
    /\ calls' = calls \o <<"GetDatasetId", "GetAccessToken">>
    /\ \E token_ok \in BOOLEAN, r \in DatasetResponses :
         IF ~token_ok THEN
            /\ RaiseNoToken("DatasetResolved")
            /\ UNCHANGED <<response, DatasetId>>
         ELSE
            /\ response' = r
            /\ IF DatasetIdOf(r, Dataset).ok
               THEN /\ pc' = "DatasetResolved"
                    /\ DatasetId' = DatasetIdOf(r, Dataset).result
                    /\ UNCHANGED err
               ELSE /\ RaiseThrown(DatasetIdOf(r, Dataset), "GetDatasetId", "DatasetResolved", r)
                    /\ UNCHANGED DatasetId
    /\ UNCHANGED <<store, widgets, dbx_globals, WorkspaceId, GatewayId, DataSourceId, payload>>
    /\ UNCHANGED other

\* cell 12: if GatewayType == "NoGateway": TakOverDataset(WorkspaceId, DatasetId)
TakOverDataset ==
    /\ pc = "DatasetResolved"
    /\ TakesOver(GatewayType)
    /\ calls' = calls \o <<"TakOverDataset", "GetAccessToken">>
    /\ \E token_ok \in BOOLEAN, r \in TakeOverResponses :
         IF ~token_ok THEN
            /\ RaiseNoToken("OwnershipHandled")
            /\ UNCHANGED response
         ELSE
            /\ response' = r
            /\ IF TakOverDatasetOf(r).ok
               THEN pc' = "OwnershipHandled" /\ UNCHANGED err
               ELSE RaiseThrown(TakOverDatasetOf(r), "TakOverDataset", "OwnershipHandled", r)
    /\ UNCHANGED <<store, widgets, dbx_globals, pbi_ids, payload>>
    /\ UNCHANGED other

\* cell 13: GetDatasetDatasource(WorkspaceId, DatasetId); cell 12 did nothing
\* when the gateway type is not "NoGateway"
GetDatasetDatasource ==
    /\ \/ pc = "OwnershipHandled"
       \/ pc = "DatasetResolved" /\ ~TakesOver(GatewayType)
    /\ calls' = calls \o <<"GetDatasetDatasource", "GetAccessToken">>
    /\ \E token_ok \in BOOLEAN, r \in DatasourceResponses :
         IF ~token_ok THEN
            /\ RaiseNoToken("DatasourceResolved")
            /\ UNCHANGED <<response, GatewayId, DataSourceId>>
         ELSE
            /\ response' = r
            /\ IF DatasetDatasourceOf(r).ok
               THEN /\ pc' = "DatasourceResolved"
                    /\ GatewayId' = DatasetDatasourceOf(r).result[1]
                    /\ DataSourceId' = DatasetDatasourceOf(r).result[2]
                    /\ UNCHANGED err
               ELSE /\ RaiseThrown(DatasetDatasourceOf(r), "GetDatasetDatasource",
                                   "DatasourceResolved", r)
                    /\ UNCHANGED <<GatewayId, DataSourceId>>
    /\ UNCHANGED <<store, widgets, dbx_globals, WorkspaceId, DatasetId, payload>>
    /\ UNCHANGED other

\* cell 14, line 180: public_key = GetGatewayPublicKey(GatewayId)
GetGatewayPublicKey ==
    /\ pc = "DatasourceResolved"
    /\ Encrypts(GatewayType)
    /\ calls' = calls \o <<"GetGatewayPublicKey", "GetAccessToken">>
    /\ \E token_ok \in BOOLEAN, r \in GatewayResponses :
         IF ~token_ok THEN
            /\ RaiseNoToken("KeyFetched")
            /\ UNCHANGED <<response, public_key>>
         ELSE
            /\ response' = r
            /\ IF PublicKeyOf(r).ok
               THEN /\ pc' = "KeyFetched"
                    /\ public_key' = PublicKeyOf(r).result
                    /\ UNCHANGED err
               ELSE /\ RaiseThrown(PublicKeyOf(r), "GetGatewayPublicKey", "KeyFetched", r)
                    /\ UNCHANGED public_key
    /\ UNCHANGED <<store, widgets, dbx_globals, pbi_ids, EncryptionAlgorithm, Credentials>>
    /\ UNCHANGED other

(* ------------------------- credential payload -------------------------- *)

\* notebook line 192, the f-string: the values are pasted between the quotes
\* as they are
PlaintextCredentials(application_id, secret) ==
    <<"{", "\"", "c", "r", "e", "d", "e", "n", "t", "i", "a", "l", "D", "a",
      "t", "a", "\"", ":", "[", "{", "\"", "n", "a", "m", "e", "\"", ":",
      "\"", "u", "s", "e", "r", "n", "a", "m", "e", "\"", ",", " ", "\"",
      "v", "a", "l", "u", "e", "\"", ":", " ", "\"">>
    \o application_id \o
    <<"\"", "}", ",", "{", "\"", "n", "a", "m", "e", "\"", ":", "\"", "p",
      "a", "s", "s", "w", "o", "r", "d", "\"", ",", " ", "\"", "v", "a", "l",
      "u", "e", "\"", ":", " ", "\"">>
    \o secret \o
    <<"\"", "}", "]", "}">>

\* notebook lines 184-188, the text handed to EncodeCredentials
OnpremisesCredentials(application_id, secret) ==
    <<"{", "'", "c", "r", "e", "d", "e", "n", "t", "i", "a", "l", "D", "a",
      "t", "a", "'", ":", "[", "{", "'", "n", "a", "m", "e", "'", ":", "'",
      "u", "s", "e", "r", "n", "a", "m", "e", "'", ",", "'", "v", "a", "l",
      "u", "e", "'", ":", "'">>
    \o application_id \o
    <<"'", "}", ",", "{", "'", "n", "a", "m", "e", "'", ":", "'", "p", "a",
      "s", "s", "w", "o", "r", "d", "'", ",", "'", "v", "a", "l", "u", "e",
      "'", ":", "'">>
    \o secret \o
    <<"'", "}", "]", "}">>

\* the algorithm of the plaintext branch in both branches
EncryptionAlgorithmOf_AlwaysNone(gateway_type) == "None"

\* notebook lines 182 and 191
EncryptionAlgorithmOf(gateway_type) ==
    IF Encrypts(gateway_type) THEN "RSA-OAEP" ELSE "None"

\* services/encrypt_credentials_service.py, EncryptCredentialsService(public_key):
\* no encoder without a gateway key
EncryptCredentialsService(key) ==
    IF key = 0 THEN Throw("UnsupportedGatewayMode", "no gateway key") ELSE Return(key)

\* services/encrypt_credentials_service.py, EncodeCredentials: the text as one
\* opaque blob under the gateway's key; a plaintext payload has key 0
EncodeCredentials(key, text) == [key |-> key, text |-> text]

\* cell 14, lines 179-192
ConstructPayload ==
    /\ IF Encrypts(GatewayType) THEN pc = "KeyFetched" ELSE pc = "DatasourceResolved"
    /\ IF Encrypts(GatewayType)
       THEN IF EncryptCredentialsService(public_key).ok
            THEN /\ pc' = "Encoded"
                 /\ EncryptionAlgorithm' = EncryptionAlgorithmOf(GatewayType)
                 /\ Credentials' =
                       EncodeCredentials(public_key,
                           OnpremisesCredentials(ServicePrincipalApplicationId,
                                                 ServicePrincipalSecret))
                 /\ calls' = Append(calls, "EncodeCredentials")
                 /\ UNCHANGED err
            ELSE /\ Raise(EncryptCredentialsService(public_key).exc,
                          "EncryptCredentialsService",
                          EncryptCredentialsService(public_key).msg, "Encoded", 0, "")
                 /\ UNCHANGED <<calls, EncryptionAlgorithm, Credentials>>
       ELSE /\ pc' = "Encoded"
            /\ EncryptionAlgorithm' = EncryptionAlgorithmOf(GatewayType)
            /\ Credentials' =
                  [key |-> 0,
                   text |-> PlaintextCredentials(ServicePrincipalApplicationId,
                                                 ServicePrincipalSecret)]
            /\ UNCHANGED <<calls, err>>
    /\ UNCHANGED <<store, response, widgets, dbx_globals, pbi_ids, public_key>>
    /\ UNCHANGED other

\* cell 15 with a retry: a rejected update is sent a second time
UpdateDatasetDatasource_Retrying ==
    /\ pc = "Encoded"
    /\ \E token_ok \in BOOLEAN, r \in UpdateResponses :
         IF ~token_ok THEN
            /\ RaiseNoToken("Published")
            /\ calls' = calls \o <<"UpdateDatasetDatasource", "GetAccessToken">>
            /\ UNCHANGED response
         ELSE
            /\ response' = r
            /\ IF UpdateDatasetDatasourceOf(r).ok
               THEN /\ pc' = "Published"
                    /\ calls' = calls \o <<"UpdateDatasetDatasource", "GetAccessToken">>
                    /\ UNCHANGED err
               ELSE /\ RaiseThrown(UpdateDatasetDatasourceOf(r), "UpdateDatasetDatasource",
                                   "Published", r)
                    /\ calls' = calls \o <<"UpdateDatasetDatasource", "GetAccessToken",
                                           "UpdateDatasetDatasource", "GetAccessToken">>
    /\ UNCHANGED <<store, widgets, dbx_globals, pbi_ids, payload>>
    /\ UNCHANGED other

\* cell 15: UpdateDatasetDatasource(GatewayId, DataSourceId, Credentials,
\* EncryptionAlgorithm)
UpdateDatasetDatasource ==
    /\ pc = "Encoded"
    /\ calls' = calls \o <<"UpdateDatasetDatasource", "GetAccessToken">>
    /\ \E token_ok \in BOOLEAN, r \in UpdateResponses :
         IF ~token_ok THEN
            /\ RaiseNoToken("Published")
            /\ UNCHANGED response
         ELSE
            /\ response' = r
            /\ IF UpdateDatasetDatasourceOf(r).ok
               THEN pc' = "Published" /\ UNCHANGED err
               ELSE RaiseThrown(UpdateDatasetDatasourceOf(r), "UpdateDatasetDatasource",
                                "Published", r)
    /\ UNCHANGED <<store, widgets, dbx_globals, pbi_ids, payload>>
    /\ UNCHANGED other

\* cell 16: if RefreshDataset == "true": RefreshDataset(WorkspaceId, DatasetId)
RefreshDatasetCell ==
    /\ pc = "Published"
    /\ RefreshRequested(RefreshDataset)
    /\ calls' = calls \o <<"RefreshDataset", "GetAccessToken">>
    /\ \E token_ok \in BOOLEAN, r \in RefreshResponses :
         IF ~token_ok THEN
            /\ RaiseNoToken("RefreshTriggered")
            /\ UNCHANGED response
         ELSE
            /\ response' = r
            /\ IF RefreshDatasetOf(r).ok
               THEN pc' = "RefreshTriggered" /\ UNCHANGED err
               ELSE RaiseThrown(RefreshDatasetOf(r), "RefreshDataset",
                                "RefreshTriggered", r)
    /\ UNCHANGED <<store, widgets, dbx_globals, pbi_ids, payload>>
    /\ UNCHANGED other

\* the last cell has run
Finish ==
    /\ \/ pc = "RefreshTriggered"
       \/ pc = "Published" /\ ~RefreshRequested(RefreshDataset)
    /\ pc' = "Done"
    /\ UNCHANGED <<store, err, calls, response, widgets, dbx_globals, pbi_ids, payload>>
    /\ UNCHANGED other

\* the notebook is run again, with the widgets set anew
RunAll ==
    /\ pc \in {"Done", "Failed"}
    /\ FreshRun
    /\ UNCHANGED store
    /\ UNCHANGED other

Next ==
    \/ CheckServicePrincipal
    \/ CheckServicePrincipalSecret
    \/ GenerateServicePrincipalSecret
    \/ GrantPermissionsOnWarehouse
    \/ GetWorkspaceId
    \/ GetDatasetId
    \/ TakOverDataset
    \/ GetDatasetDatasource
    \/ GetGatewayPublicKey
    \/ ConstructPayload
    \/ UpdateDatasetDatasource
    \/ RefreshDatasetCell
    \/ Finish
    \/ RunAll

Spec == Init /\ [][Next]_vars

(* ------------------------- two sessions at once ------------------------ *)
\* A second session runs cells 4 to 6 of the same notebook, for the same
\* display name, while the first session runs: its calls reach the workspace
\* between the calls of the first.

\* cell 5 in the second session: dbx_svc.CheckServicePrincipal(ServicePrincipal)
Other_CheckServicePrincipal ==
    /\ other.pc = "Init"
    /\ \E list_ok, create_ok \in BOOLEAN :
         LET found == ListedServicePrincipal(service_principals)
             created == Len(service_principals) + 1
         IN
         IF ~list_ok THEN
            /\ other' = [other EXCEPT !.pc = "Failed"]
            /\ UNCHANGED store
         ELSE IF found # 0 THEN
            /\ other' = [other EXCEPT !.pc = "PrincipalEnsured",
                                      !.ServicePrincipaId = found]
            /\ UNCHANGED store
         ELSE IF ~create_ok THEN
            /\ other' = [other EXCEPT !.pc = "Failed"]
            /\ UNCHANGED store
         ELSE
            /\ other' = [other EXCEPT !.pc = "PrincipalEnsured",
                                      !.ServicePrincipaId = created]
            /\ service_principals' = Append(service_principals, created)
            /\ UNCHANGED secrets
    /\ UNCHANGED <<pc, err, calls, response, widgets, dbx_globals, pbi_ids, payload>>

\* cell 5 in the second session: dbx_svc.CheckServicePrincipalSecret(ServicePrincipaId)
Other_CheckServicePrincipalSecret ==
    /\ other.pc = "PrincipalEnsured"
    /\ \E list_ok \in BOOLEAN :
         IF ~list_ok THEN
            other' = [other EXCEPT !.pc = "Failed"]
         ELSE
            other' = [other EXCEPT
                        !.secrets_count = secrets[other.ServicePrincipaId],
                        !.pc = IF SecretCapReached(secrets[other.ServicePrincipaId])
                               THEN "Failed" ELSE "CapacityChecked"]
    /\ UNCHANGED <<store, pc, err, calls, response, widgets, dbx_globals, pbi_ids,
                   payload>>

\* cell 6 in the second session:
\* dbx_svc.GenerateServicePrincipalSecret(ServicePrincipaId, Lifetime)
Other_GenerateServicePrincipalSecret ==
    /\ other.pc = "CapacityChecked"
    /\ \E create_ok \in BOOLEAN :
         IF ~create_ok THEN
            /\ other' = [other EXCEPT !.pc = "Failed"]
            /\ UNCHANGED secrets
         ELSE
            /\ other' = [other EXCEPT !.pc = "SecretMinted"]
            /\ secrets' = [secrets EXCEPT ![other.ServicePrincipaId] = @ + 1]
    /\ UNCHANGED <<service_principals, pc, err, calls, response, widgets,
                   dbx_globals, pbi_ids, payload>>

NextConcurrent ==
    \/ Next
    \/ Other_CheckServicePrincipal
    \/ Other_CheckServicePrincipalSecret
    \/ Other_GenerateServicePrincipalSecret

SpecConcurrent == Init /\ [][NextConcurrent]_vars

(* ----------------------- reading the payload back ---------------------- *)
\* The receiver of a plaintext payload reads it as JSON text.  Tokens of JSON
\* text: the six structural characters, and strings with their escapes
\* resolved; anything else the payload shape does not use is a bad token.

Structural == {"{", "}", "[", "]", ":", ","}
BadToken == [t |-> "bad", s |-> <<>>]

\* the character an escape stands for; "" when the escape is not JSON
Unescape(c) ==
    CASE c = QUOTE -> QUOTE
      [] c = BACKSLASH -> BACKSLASH
      [] c = "/" -> "/"
      [] c = "n" -> "\n"
      [] c = "t" -> "\t"
      [] c = "r" -> "\r"
      [] OTHER -> ""

\* the backslashes that stand directly before index j of a string begun at i
BackslashesBefore(text, i, j) ==
    CHOOSE k \in 0..(j - i) :
        /\ \A m \in 1..k : text[j - m] = BACKSLASH
        /\ k = j - i \/ text[j - k - 1] # BACKSLASH

\* index of the quote that closes the string begun at i; 0 when none does
StringEnd(text, i) ==
    LET closing == {j \in i..Len(text) :
                       /\ text[j] = QUOTE
                       /\ BackslashesBefore(text, i, j) % 2 = 0}
    IN  IF closing = {} THEN 0
        ELSE CHOOSE j \in closing : \A k \in closing : j <= k

\* the characters of a string's raw text, escapes resolved; <<"">> marks an
\* escape that is not JSON (a raw text never ends inside an escape)
RECURSIVE Unescaped(_)
Unescaped(raw) ==
    IF raw = <<>> THEN <<>>
    ELSE IF raw[1] # BACKSLASH THEN <<raw[1]>> \o Unescaped(Tail(raw))
    ELSE <<Unescape(raw[2])>> \o Unescaped(Tail(Tail(raw)))

RECURSIVE ScanJson(_, _, _)
\* tokens of text from index i on
ScanJson(text, i, acc) ==
    IF i > Len(text) THEN acc
    ELSE IF text[i] = " " THEN ScanJson(text, i + 1, acc)
    ELSE IF text[i] \in Structural
    THEN ScanJson(text, i + 1, Append(acc, [t |-> text[i], s |-> <<>>]))
    ELSE IF text[i] = QUOTE /\ StringEnd(text, i + 1) # 0
    THEN LET end == StringEnd(text, i + 1)
             str == Unescaped(SubSeq(text, i + 1, end - 1))
         IN  IF \E k \in 1..Len(str) : str[k] = ""
             THEN Append(acc, BadToken)
             ELSE ScanJson(text, end + 1, Append(acc, [t |-> "string", s |-> str]))
    ELSE Append(acc, BadToken)

Chars_credentialData ==
    <<"c", "r", "e", "d", "e", "n", "t", "i", "a", "l", "D", "a", "t", "a">>
Chars_name == <<"n", "a", "m", "e">>
Chars_value == <<"v", "a", "l", "u", "e">>
Chars_username == <<"u", "s", "e", "r", "n", "a", "m", "e">>
Chars_password == <<"p", "a", "s", "s", "w", "o", "r", "d">>

\* the token kinds of {"credentialData":[{"name":..,"value":..},{"name":..,"value":..}]}
CredentialShape ==
    <<"{", "string", ":", "[",
      "{", "string", ":", "string", ",", "string", ":", "string", "}", ",",
      "{", "string", ":", "string", ",", "string", ":", "string", "}",
      "]", "}">>

\* The username/password pair a JSON reader finds in the text; not ok when
\* the text is not JSON or is JSON of another shape.
DecodeCredentials(text) ==
    LET toks == ScanJson(text, 1, <<>>)
        shaped ==
            /\ Len(toks) = Len(CredentialShape)
            /\ \A i \in 1..Len(toks) : toks[i].t = CredentialShape[i]
        keyed ==
            /\ toks[2].s = Chars_credentialData
            /\ toks[6].s = Chars_name /\ toks[8].s = Chars_username
            /\ toks[10].s = Chars_value
            /\ toks[16].s = Chars_name /\ toks[18].s = Chars_password
            /\ toks[20].s = Chars_value
    IN  IF shaped /\ keyed
        THEN [ok |-> TRUE, username |-> toks[12].s, password |-> toks[22].s]
        ELSE [ok |-> FALSE, username |-> <<>>, password |-> <<>>]

(* ------------------------------------------------------------------------ *)
(* Properties                                                               *)
(* ------------------------------------------------------------------------ *)

Invoked(method) == \E i \in 1..Len(calls) : calls[i] = method
TimesInvoked(method) == Cardinality({i \in 1..Len(calls) : calls[i] = method})
\* every invocation of a precedes every invocation of b
Precedes(a, b) ==
    \A i, j \in 1..Len(calls) : calls[i] = a /\ calls[j] = b => i < j

\* the methods of PowerbiService, each of which calls the Power BI REST API
PowerbiMethods ==
    {"GetAccessToken", "GetWorkspaceId", "GetDatasetId", "TakOverDataset",
     "GetDatasetDatasource", "GetGatewayPublicKey", "UpdateDatasetDatasource",
     "RefreshDataset"}

\* the run's last service method was m and the REST API answered it
Answered(m) ==
    /\ Len(calls) >= 2
    /\ calls[Len(calls) - 1] = m
    /\ err.by # "GetRequestHeader"

\* the error kinds of the design, as the exceptions of the code
RotationCapExceeded(e) ==
    e.exc = "ValueError" /\ e.by = "CheckServicePrincipalSecret"
WorkspaceNotFound(e) ==
    /\ e.exc = "ValueError" /\ e.by = "GetWorkspaceId"
    /\ e.msg = "Workspace does not exist or no access"
UnsupportedGatewayMode(e) == e.exc = "UnsupportedGatewayMode"
PublishRejected(e) ==
    e.exc = "ValueError" /\ e.by = "UpdateDatasetDatasource"

\* a run that failed is over: the only step left is the next run
FailedIsTerminal == pc = "Failed" => pc' = "Init" /\ calls' = <<>>

\* C1: when the secrets listed for the principal number max_secrets or more,
\* CheckServicePrincipalSecret raises its ValueError: the run is Failed at
\* CapacityChecked, and it has neither minted a secret nor granted the
\* warehouse permission nor called the Power BI service.
C1_CapStopsRun ==
    (Invoked("CheckServicePrincipalSecret") /\ secrets_count >= max_secrets) =>
        /\ pc = "Failed"
        /\ err.stage = "CapacityChecked"
        /\ RotationCapExceeded(err)
        /\ ~Invoked("GenerateServicePrincipalSecret")
        /\ ~Invoked("GrantPermissionsOnWarehouse")
        /\ \A m \in PowerbiMethods : ~Invoked(m)
        /\ ServicePrincipalSecret = <<>>

C1_Witness ==
    /\ pc = "Failed"
    /\ RotationCapExceeded(err)
    /\ secrets_count = max_secrets
    /\ secrets[ServicePrincipaId] = max_secrets

\* C2: over runs executed one after another, no principal ever holds more
\* than max_secrets secrets; a secret is minted only in a run whose check saw
\* the principal's current count, below max_secrets, and the mint raises that
\* principal's count by exactly one and no other count.
C2_CountWithinCap ==
    /\ [](\A i \in DOMAIN secrets : secrets[i] <= max_secrets)
    /\ [][secrets' # secrets =>
            /\ pc = "CapacityChecked" /\ pc' = "SecretMinted"
            /\ secrets_count = secrets[ServicePrincipaId]
            /\ secrets_count < max_secrets
            /\ secrets' = [secrets EXCEPT ![ServicePrincipaId] = @ + 1]]_vars

C2_Witness ==
    /\ pc = "SecretMinted"
    /\ secrets_count = max_secrets - 1
    /\ secrets[ServicePrincipaId] = max_secrets
    /\ service_principals = <<1>>
    /\ Invoked("GenerateServicePrincipalSecret")

\* C3: in a run with gateway type NoGateway or VNET the gateway public key is
\* never fetched and the payload that is built and published is plaintext
\* under encryption algorithm "None"; a run that fetches the gateway public
\* key has gateway type Onpremises.
C3_PlaintextModes ==
    /\ GatewayType \in {"NoGateway", "VNET"} =>
          /\ ~Invoked("GetGatewayPublicKey")
          /\ ~Invoked("EncodeCredentials")
          /\ public_key = 0
          /\ (pc \in {"Encoded", "Published", "RefreshTriggered", "Done"}
                \/ Invoked("UpdateDatasetDatasource")) =>
                /\ EncryptionAlgorithm = "None"
                /\ Credentials.key = 0
    /\ Invoked("GetGatewayPublicKey") => GatewayType = "Onpremises"

C3_Witness ==
    /\ GatewayType = "VNET"
    /\ pc = "Published"
    /\ EncryptionAlgorithm = "None"
    /\ ~Invoked("GetGatewayPublicKey")

C5_OtherModeRejected ==
    GatewayType \notin {"NoGateway", "VNET", "Onpremises"} =>
        /\ Credentials = NoCredentials
        /\ pc \notin {"Encoded", "Published", "RefreshTriggered", "Done"}
        /\ ~Invoked("UpdateDatasetDatasource")

\* C6: when the REST API answers UpdateDatasetDatasource with a status other
\* than 200 the run is Failed at Published, the error carries that status and
\* the response body, RefreshDataset has not been invoked, and a Failed run
\* takes no further step.
C6_PublishRejectedHalts ==
    /\ []((Answered("UpdateDatasetDatasource") /\ response.status # 200) =>
            /\ pc = "Failed"
            /\ PublishRejected(err)
            /\ err.stage = "Published"
            /\ err.status = response.status
            /\ err.text = response.text
            /\ ~Invoked("RefreshDataset"))
    /\ [][FailedIsTerminal]_vars

C6_Witness ==
    /\ pc = "Failed"
    /\ PublishRejected(err)
    /\ err.status = 403
    /\ err.text = "Forbidden"
    /\ RefreshDataset = "true"

\* C7: TakOverDataset is invoked at most once in a run, only when the gateway
\* type is NoGateway and the dataset id has been resolved, after GetDatasetId
\* and before GetDatasetDatasource; a NoGateway run that has gone past the
\* resolved dataset has invoked it exactly once; an Onpremises or VNET run
\* never invokes it.
C7_TakeOverOnlyNoGateway ==
    /\ TimesInvoked("TakOverDataset") <= 1
    /\ Invoked("TakOverDataset") =>
          /\ GatewayType = "NoGateway"
          /\ DatasetId # 0
          /\ Invoked("GetDatasetId")
          /\ Precedes("GetDatasetId", "TakOverDataset")
          /\ Precedes("TakOverDataset", "GetDatasetDatasource")
    /\ (GatewayType = "NoGateway" /\ DatasetId # 0 /\ pc # "DatasetResolved") =>
          TimesInvoked("TakOverDataset") = 1
    /\ GatewayType \in {"Onpremises", "VNET"} => ~Invoked("TakOverDataset")

C7_Witness ==
    /\ GatewayType = "NoGateway"
    /\ pc = "DatasourceResolved"
    /\ TimesInvoked("TakOverDataset") = 1
    /\ Invoked("GetDatasetDatasource")

\* C8: RefreshDataset is invoked at most once in a run, only when the
\* RefreshDataset widget is "true" and only after UpdateDatasetDatasource
\* succeeded; a run that is Done has invoked it exactly when the widget is
\* "true", and a run with the widget "false" steps from Published to Done.
C8_RefreshIffFlag ==
    /\ [](/\ TimesInvoked("RefreshDataset") <= 1
          /\ Invoked("RefreshDataset") =>
                /\ RefreshRequested(RefreshDataset)
                /\ Invoked("UpdateDatasetDatasource")
                /\ Precedes("UpdateDatasetDatasource", "RefreshDataset")
                /\ ~PublishRejected(err)
          /\ pc \in {"RefreshTriggered", "Done"} =>
                (Invoked("RefreshDataset") <=> RefreshDataset = "true"))
    /\ [][(pc = "Published" /\ RefreshDataset = "false") =>
            (pc' = "Done" /\ calls' = calls)]_vars
    /\ [][(pc = "Published" /\ RefreshDataset = "true") =>
            (pc' \in {"RefreshTriggered", "Failed"} /\ Invoked("RefreshDataset")')]_vars

C8_Witness ==
    /\ pc = "Done"
    /\ RefreshDataset = "true"
    /\ TimesInvoked("RefreshDataset") = 1

\* C9: when the REST API answers GetWorkspaceId with a status other than 200
\* the run fails with the retrieval error; with status 200 and no workspace
\* it fails with the workspace-not-found error; with status 200 and exactly
\* one workspace the run holds that workspace's id.  A run that failed
\* resolving the workspace has invoked no later method.
C9_ResolveWorkspace ==
    /\ Answered("GetWorkspaceId") =>
          /\ response.status # 200 =>
                /\ pc = "Failed"
                /\ err.exc = "ValueError" /\ err.by = "GetWorkspaceId"
                /\ err.msg = "Error retrieving the workspace id"
                /\ WorkspaceId = 0
          /\ (response.status = 200 /\ Len(response.value) = 0) =>
                /\ pc = "Failed"
                /\ WorkspaceNotFound(err)
                /\ WorkspaceId = 0
          /\ (response.status = 200 /\ Len(response.value) = 1) =>
                /\ pc = "WorkspaceResolved"
                /\ WorkspaceId = response.value[1].id
    /\ (pc = "Failed" /\ err.stage = "WorkspaceResolved") =>
          \A m \in {"GetDatasetId", "TakOverDataset", "GetDatasetDatasource",
                    "GetGatewayPublicKey", "UpdateDatasetDatasource",
                    "RefreshDataset"} : ~Invoked(m)

C9_Witness ==
    /\ pc = "Failed"
    /\ WorkspaceNotFound(err)
    /\ response.status = 200
    /\ response.value = <<>>

\* C10: the plaintext payload of a run, read back as JSON, gives the
\* application id as username and the minted secret as password.
C10_PlaintextRoundTrip ==
    (Credentials # NoCredentials /\ Credentials.key = 0) =>
        DecodeCredentials(Credentials.text) =
            [ok |-> TRUE,
             username |-> ServicePrincipalApplicationId,
             password |-> ServicePrincipalSecret]

\* the step of cell 4 with the principals listed (the listing did not raise)
PrincipalLookedUp ==
    /\ pc = "Init" /\ pc' # "Init"
    /\ err'.by # "service_principals.list"

\* C11 as claimed: CheckServicePrincipal creates a principal exactly when the
\* listing for the display name is empty, and with principals listed it
\* returns the id and application id of the FIRST of them.
C11_FirstMatchWins ==
    [][PrincipalLookedUp =>
         /\ Invoked("service_principals.create")' <=> service_principals = <<>>
         /\ service_principals # <<>> =>
               /\ service_principals' = service_principals
               /\ pc' = "PrincipalEnsured"
               /\ ServicePrincipaId' = service_principals[1]
               /\ ServicePrincipalApplicationId' =
                     ApplicationIdOf(service_principals[1])]_vars

\* C11, amended: CheckServicePrincipal creates a principal exactly when the
\* listing for the display name is empty, never when one is listed, and with
\* principals listed it returns the id and application id of the LAST of
\* them, both of the same principal.
C11_LastMatchWins ==
    [][PrincipalLookedUp =>
         /\ Invoked("service_principals.create")' <=> service_principals = <<>>
         /\ service_principals # <<>> =>
               /\ service_principals' = service_principals
               /\ pc' = "PrincipalEnsured"
               /\ ServicePrincipaId' = service_principals[Len(service_principals)]
               /\ ServicePrincipalApplicationId' =
                     ApplicationIdOf(service_principals[Len(service_principals)])
         /\ (service_principals = <<>> /\ pc' = "PrincipalEnsured") =>
               /\ Len(service_principals') = 1
               /\ ServicePrincipaId' = service_principals'[1]
               /\ ServicePrincipalApplicationId' = ApplicationIdOf(ServicePrincipaId')
         /\ (service_principals = <<>> /\ pc' = "Failed") =>
               service_principals' = <<>>]_vars

C11_Witness ==
    /\ pc = "PrincipalEnsured"
    /\ Len(service_principals) = 2
    /\ ServicePrincipaId = service_principals[2]
    /\ ServicePrincipaId # service_principals[1]
    /\ ~Invoked("service_principals.create")

\* C12: the dataset id a run resolves is the id of the last entry of the
\* listing whose name is the requested name, and the gateway id and
\* datasource id it resolves are those of one entry, the last of the listing
\* whose connection kind is "Databricks".
C12_LastMatchResolved ==
    /\ (Answered("GetDatasetId") /\ pc = "DatasetResolved") =>
          \E i \in 1..Len(response.value) :
              /\ response.value[i].name = Dataset
              /\ \A j \in (i + 1)..Len(response.value) :
                    response.value[j].name # Dataset
              /\ DatasetId = response.value[i].id
    /\ (Answered("GetDatasetDatasource") /\ pc = "DatasourceResolved") =>
          \E i \in 1..Len(response.value) :
              /\ response.value[i].kind = "Databricks"
              /\ \A j \in (i + 1)..Len(response.value) :
                    response.value[j].kind # "Databricks"
              /\ GatewayId = response.value[i].gatewayId
              /\ DataSourceId = response.value[i].datasourceId

C12_Witness ==
    /\ Answered("GetDatasetDatasource")
    /\ pc = "DatasourceResolved"
    /\ Len(response.value) = 2
    /\ \A i \in 1..2 : response.value[i].kind = "Databricks"
    /\ GatewayId = response.value[2].gatewayId
    /\ DataSourceId = response.value[2].datasourceId
    /\ GatewayId # response.value[1].gatewayId

RefreshRejected(e) == e.exc = "ValueError" /\ e.by = "RefreshDataset"

\* C13: when the REST API answers RefreshDataset with a status other than
\* 202 the run is Failed with the refresh error; the credential update was
\* invoked once, before the refresh, and nothing is invoked after the
\* refresh; the step that fails changes neither the payload nor the
\* principal store, and a Failed run takes no further step.
C13_RefreshFailureKeepsPublish ==
    /\ []((Answered("RefreshDataset") /\ response.status # 202) =>
            /\ pc = "Failed"
            /\ RefreshRejected(err)
            /\ err.stage = "RefreshTriggered"
            /\ TimesInvoked("UpdateDatasetDatasource") = 1
            /\ Precedes("UpdateDatasetDatasource", "RefreshDataset")
            /\ TimesInvoked("TakOverDataset") <= 1
            /\ Precedes("TakOverDataset", "RefreshDataset")
            /\ Credentials # NoCredentials)
    /\ [][pc = "Published" =>
            /\ UNCHANGED <<store, payload, pbi_ids, dbx_globals>>
            /\ pc' = "Failed" => calls' = calls \o <<"RefreshDataset", "GetAccessToken">>]_vars
    /\ [][pc = "Failed" => (pc' = "Init" /\ calls' = <<>> /\ UNCHANGED store)]_vars

C13_Witness ==
    /\ Answered("RefreshDataset")
    /\ response.status = 500
    /\ pc = "Failed"
    /\ RefreshRejected(err)
    /\ err.status = 500

\* the text with double quotes for its single quotes
Requoted(text) == [i \in 1..Len(text) |-> IF text[i] = "'" THEN QUOTE ELSE text[i]]

\* C14 as claimed: the text encrypted in an Onpremises run reads as the same
\* JSON credential object as the plaintext payload of the same application
\* id and secret.
C14_SameJsonObject ==
    (Credentials.key # 0
       /\ DecodeCredentials(PlaintextCredentials(ServicePrincipalApplicationId,
                                                 ServicePrincipalSecret)).ok) =>
        DecodeCredentials(Credentials.text) =
            DecodeCredentials(PlaintextCredentials(ServicePrincipalApplicationId,
                                                   ServicePrincipalSecret))

\* What the two texts do share: the text encrypted in an Onpremises run has
\* the keys and values of the plaintext payload, in the same order, with its
\* strings quoted by single quotes; read with double quotes for the single
\* quotes it is the same credential object.
SameObjectSingleQuoted ==
    Credentials.key # 0 =>
        /\ DecodeCredentials(Requoted(Credentials.text)) =
              DecodeCredentials(PlaintextCredentials(ServicePrincipalApplicationId,
                                                     ServicePrincipalSecret))
        /\ \A i \in 1..Len(Credentials.text) : Credentials.text[i] = QUOTE =>
              \E j \in 1..Len(ServicePrincipalSecret) :
                  ServicePrincipalSecret[j] = QUOTE

SingleQuotedReached ==
    /\ GatewayType = "Onpremises"
    /\ pc = "Published"
    /\ Credentials.key # 0
    /\ ServicePrincipalSecret = <<"a", "a">>
    /\ DecodeCredentials(Requoted(Credentials.text)).ok
    /\ DecodeCredentials(Requoted(Credentials.text)).password = <<"a", "a">>
    /\ ~DecodeCredentials(Credentials.text).ok

\* the stage the design puts after a stage, for a gateway mode and a refresh
\* flag
StageAfter(stage, gateway_type, flag) ==
    CASE stage = "Init" -> "PrincipalEnsured"
      [] stage = "PrincipalEnsured" -> "CapacityChecked"
      [] stage = "CapacityChecked" -> "SecretMinted"
      [] stage = "SecretMinted" -> "PermissionGranted"
      [] stage = "PermissionGranted" -> "WorkspaceResolved"
      [] stage = "WorkspaceResolved" -> "DatasetResolved"
      [] stage = "DatasetResolved" ->
            IF gateway_type = "NoGateway" THEN "OwnershipHandled"
            ELSE "DatasourceResolved"
      [] stage = "OwnershipHandled" -> "DatasourceResolved"
      [] stage = "DatasourceResolved" ->
            IF gateway_type = "Onpremises" THEN "KeyFetched" ELSE "Encoded"
      [] stage = "KeyFetched" -> "Encoded"
      [] stage = "Encoded" -> "Published"
      [] stage = "Published" -> IF flag = "true" THEN "RefreshTriggered" ELSE "Done"
      [] stage = "RefreshTriggered" -> "Done"
      [] OTHER -> "none"

ServiceMethods ==
    {"CheckServicePrincipal", "CheckServicePrincipalSecret",
     "GenerateServicePrincipalSecret", "GrantPermissionsOnWarehouse",
     "GetWorkspaceId", "GetDatasetId", "TakOverDataset", "GetDatasetDatasource",
     "GetGatewayPublicKey", "EncodeCredentials", "UpdateDatasetDatasource",
     "RefreshDataset"}

\* C15: every step of a run either enters the stage the design puts next for
\* the run's gateway mode and refresh flag, or fails at that stage; the
\* widgets do not change within a run; no service method is invoked twice in
\* a run; a run that is Failed or Done makes no call, its only step is the
\* start of the next run.
C15_StagesInOrder ==
    /\ [][\/ /\ pc \notin {"Done", "Failed"}
             /\ \/ pc' = StageAfter(pc, GatewayType, RefreshDataset)
                \/ /\ pc' = "Failed"
                   /\ err'.stage = StageAfter(pc, GatewayType, RefreshDataset)
             /\ UNCHANGED widgets
          \/ /\ pc \in {"Done", "Failed"}
             /\ pc' = "Init"
             /\ calls' = <<>>]_vars
    /\ [](\A m \in ServiceMethods : TimesInvoked(m) <= 1)
    /\ [](pc = "Failed" <=> err # NoError)

C15_Witness ==
    /\ pc = "Done"
    /\ GatewayType = "Onpremises"
    /\ RefreshDataset = "true"
    /\ calls = <<"CheckServicePrincipal", "CheckServicePrincipalSecret",
                 "GenerateServicePrincipalSecret", "GrantPermissionsOnWarehouse",
                 "GetWorkspaceId", "GetAccessToken", "GetDatasetId", "GetAccessToken",
                 "GetDatasetDatasource", "GetAccessToken",
                 "GetGatewayPublicKey", "GetAccessToken", "EncodeCredentials",
                 "UpdateDatasetDatasource", "GetAccessToken",
                 "RefreshDataset", "GetAccessToken">>

\* C16: no step of any run lowers a principal's secret count; from the mint
\* on, through every later stage and every failure, the run holds the minted
\* secret and the principal's count is one above the count the capacity
\* check saw.
C16_NoRollback ==
    /\ [][\A i \in DOMAIN secrets : secrets'[i] >= secrets[i]]_vars
    /\ [](ServicePrincipalSecret # <<>> =>
            /\ Invoked("GenerateServicePrincipalSecret")
            /\ secrets[ServicePrincipaId] = secrets_count + 1)
    /\ [][(ServicePrincipalSecret # <<>> /\ pc' # "Init") =>
            /\ ServicePrincipalSecret' = ServicePrincipalSecret
            /\ secrets' = secrets]_vars

C16_Witness ==
    /\ pc = "Failed"
    /\ err.stage \in {"PermissionGranted", "Published"}
    /\ ServicePrincipalSecret # <<>>
    /\ secrets[ServicePrincipaId] = secrets_count + 1

\* the calls that change something outside the run
MutatingMethods ==
    {"GenerateServicePrincipalSecret", "TakOverDataset", "UpdateDatasetDatasource"}

\* C17: in every run, failed ones included, the secret is minted at most once,
\* the credential update is sent at most once and the dataset is taken over
\* at most once; the principal has at most one secret more than the capacity
\* check counted.
C17_NoRetry ==
    /\ \A m \in MutatingMethods : TimesInvoked(m) <= 1
    /\ Invoked("CheckServicePrincipalSecret") /\ secrets_count > 0 =>
         secrets[ServicePrincipaId] <= secrets_count + 1

C17_Witness ==
    /\ pc = "Failed"
    /\ PublishRejected(err)
    /\ \A m \in MutatingMethods : TimesInvoked(m) = 1

\* C18: when two sessions run the capacity check and the mint for the same
\* principal in any interleaving, the principal never holds more than
\* max_secrets secrets.
C18_CapHoldsInterleaved ==
    \A i \in 1..Len(service_principals) : secrets[service_principals[i]] <= max_secrets

\* both sessions passed the capacity check on the same count and both minted
BothMinted ==
    /\ pc # "Failed" /\ ServicePrincipalSecret # <<>>
    /\ other.pc = "SecretMinted"
    /\ other.ServicePrincipaId = ServicePrincipaId
    /\ other.secrets_count = secrets_count
    /\ secrets[ServicePrincipaId] = secrets_count + 2

\* the listing answered with status 200 and none of its entries matched
NoDatasetListed ==
    /\ Answered("GetDatasetId") /\ response.status = 200
    /\ \A i \in 1..Len(response.value) : response.value[i].name # Dataset
NoDatabricksDatasourceListed ==
    /\ Answered("GetDatasetDatasource") /\ response.status = 200
    /\ \A i \in 1..Len(response.value) : response.value[i].kind # "Databricks"

\* C19: when no listed dataset has the requested name the run fails at the
\* dataset lookup, before the take-over, the datasource lookup and the
\* credential update; when no listed datasource is of kind "Databricks" the
\* run fails at the datasource lookup, before the credential update; and the
\* credential update is only ever invoked with all four ids resolved.
C19_NoUnresolvedPublish ==
    /\ NoDatasetListed =>
         /\ pc = "Failed" /\ err.stage = "DatasetResolved"
         /\ err.by = "GetDatasetId"
         /\ DatasetId = 0
         /\ ~Invoked("TakOverDataset")
         /\ ~Invoked("GetDatasetDatasource")
         /\ ~Invoked("UpdateDatasetDatasource")
    /\ NoDatabricksDatasourceListed =>
         /\ pc = "Failed" /\ err.stage = "DatasourceResolved"
         /\ err.by = "GetDatasetDatasource"
         /\ GatewayId = 0 /\ DataSourceId = 0
         /\ ~Invoked("GetGatewayPublicKey")
         /\ ~Invoked("UpdateDatasetDatasource")
    /\ Invoked("UpdateDatasetDatasource") =>
         WorkspaceId # 0 /\ DatasetId # 0 /\ GatewayId # 0 /\ DataSourceId # 0

C19_Witness ==
    /\ NoDatasetListed
    /\ Len(response.value) > 0
    /\ TakesOver(GatewayType)
    /\ err.exc = "UnboundLocalError"

(* --------------------- where the minted secret goes -------------------- *)
\* Values are followed by the expression that holds them.  The minted secret
\* is the field "secret" of the object create() returns; cell 6 binds it to
\* ServicePrincipalSecret and cell 14 formats it into Credentials.
SecretBearing ==
    {"service_principal_secrets.secret", "ServicePrincipalSecret", "Credentials"}

\* GenerateServicePrincipalSecret printing the secret with its times
DatabricksPrints_WithSecret(method) ==
    CASE method = "CheckServicePrincipal" ->
            {"service_principal_name", "service_principal_id",
             "service_principal_application_id"}
      [] method = "CheckServicePrincipalSecret" ->
            {"len(list(list_service_principal_secrets))"}
      [] method = "GenerateServicePrincipalSecret" ->
            {"service_principal_id", "service_principal_secrets.secret",
             "service_principal_secrets.create_time",
             "service_principal_secrets.expire_time",
             "service_principal_secrets.status"}
      [] method = "GrantPermissionsOnWarehouse" ->
            {"service_principal_id", "warehouse_id"}
      [] OTHER -> {}

\* the expressions each method of DatabricksService formats into print()
DatabricksPrints(method) ==
    CASE method = "CheckServicePrincipal" ->
            {"service_principal_name", "service_principal_id",
             "service_principal_application_id"}
      [] method = "CheckServicePrincipalSecret" ->
            {"len(list(list_service_principal_secrets))"}
      [] method = "GenerateServicePrincipalSecret" ->
            {"service_principal_id", "service_principal_secrets.create_time",
             "service_principal_secrets.expire_time",
             "service_principal_secrets.status"}
      [] method = "GrantPermissionsOnWarehouse" ->
            {"service_principal_id", "warehouse_id"}
      [] OTHER -> {}

\* the expressions each method of PowerbiService formats into print()
PowerbiPrints(method) ==
    CASE method = "TakOverDataset" -> {"self.client_id"}
      [] method = "RefreshDataset" -> {"DatasetId"}
      [] method = "UpdateDatasetDatasource" -> {"GatewayId", "DataSourceId"}
      [] OTHER -> {}

\* the expressions formatted into the message of the exception a method raises
RaisedBy(method) ==
    CASE method = "CheckServicePrincipalSecret" ->
            {"service_principal_id", "self.max_secrets"}
      [] method = "GetWorkspaceId" ->
            {"response.status_code", "response.text", "workspace_name",
             "self.client_id"}
      [] method = "TakOverDataset" -> {"self.client_id"}
      [] method = "RefreshDataset" -> {"response.status_code", "response.text"}
      [] method = "UpdateDatasetDatasource" ->
            {"response.status_code", "response.text"}
      [] OTHER -> {}

\* the notebook globals each cell passes to its method
Arguments(method) ==
    CASE method = "CheckServicePrincipal" -> {"ServicePrincipal"}
      [] method = "CheckServicePrincipalSecret" -> {"ServicePrincipaId"}
      [] method = "GenerateServicePrincipalSecret" -> {"ServicePrincipaId", "Lifetime"}
      [] method = "GrantPermissionsOnWarehouse" ->
            {"ServicePrincipalApplicationId", "WarehouseId"}
      [] method = "GetWorkspaceId" -> {"Workspace"}
      [] method = "GetDatasetId" -> {"WorkspaceId", "Dataset"}
      [] method = "TakOverDataset" -> {"WorkspaceId", "DatasetId"}
      [] method = "GetDatasetDatasource" -> {"WorkspaceId", "DatasetId"}
      [] method = "GetGatewayPublicKey" -> {"GatewayId"}
      [] method = "EncodeCredentials" ->
            {"ServicePrincipalApplicationId", "ServicePrincipalSecret"}
      [] method = "UpdateDatasetDatasource" ->
            {"GatewayId", "DataSourceId", "Credentials", "EncryptionAlgorithm"}
      [] method = "RefreshDataset" -> {"WorkspaceId", "DatasetId"}
      [] OTHER -> {}

\* the notebook global a parameter of a method is bound to; an expression
\* that is no renamed parameter stands for itself
Binding(method, expr) ==
    CASE method = "CheckServicePrincipal" /\ expr = "service_principal_name" ->
            "ServicePrincipal"
      [] method \in {"CheckServicePrincipalSecret", "GenerateServicePrincipalSecret"}
         /\ expr = "service_principal_id" -> "ServicePrincipaId"
      [] method = "GrantPermissionsOnWarehouse" /\ expr = "service_principal_id" ->
            "ServicePrincipalApplicationId"
      [] method = "GrantPermissionsOnWarehouse" /\ expr = "warehouse_id" ->
            "WarehouseId"
      [] method = "GetWorkspaceId" /\ expr = "workspace_name" -> "Workspace"
      [] OTHER -> expr

\* what the run has printed so far, and what its exception shows
Printed ==
    UNION {{Binding(calls[i], x) :
               x \in DatabricksPrints(calls[i]) \cup PowerbiPrints(calls[i])} :
           i \in 1..Len(calls)}
ErrorShown ==
    IF pc = "Failed" THEN {Binding(err.by, x) : x \in RaisedBy(err.by)} ELSE {}

\* C20: in every run, successful or failed, no printed message and no raised
\* error text is formatted from an expression holding the minted secret; the
\* secret is handed to no method but the encoder of the payload and the
\* credential update.
C20_SecretNotShown ==
    /\ Printed \cap SecretBearing = {}
    /\ ErrorShown \cap SecretBearing = {}
    /\ \A i \in 1..Len(calls) :
          Arguments(calls[i]) \cap SecretBearing # {} =>
             calls[i] \in {"EncodeCredentials", "UpdateDatasetDatasource"}

C20_Witness ==
    /\ pc = "Failed"
    /\ PublishRejected(err)
    /\ ~Encrypts(GatewayType)
    /\ Credentials.text =
          PlaintextCredentials(ServicePrincipalApplicationId, ServicePrincipalSecret)
    /\ "service_principal_secrets.status" \in Printed
    /\ "response.text" \in ErrorShown

====
